---- MODULE Spec2Model ----
(***************************************************************************)
(* Model of src/src/eye_roll_scroll.py: the trigger gate                   *)
(* (EyeRollDetector.should_trigger and the state it keeps, specification   *)
(* Spec), the eye-roll score (_eye_roll_score and process_landmarks,       *)
(* specification SpecScore) and the frame loop (run_camera, specification  *)
(* SpecCamera).                                                            *)
(*                                                                         *)
(* Floats are modelled by integers: one unit of time is an arbitrary       *)
(* fraction of a second, one unit of score an arbitrary fraction of the    *)
(* score range.  Only the order and the differences of the values matter   *)
(* to should_trigger; rounding of the float subtraction, nan and negative  *)
(* timestamps are not modelled.                                            *)
(***************************************************************************)
EXTENDS Integers, Sequences, FiniteSets, TLC

MaxCalls    == 4   \* number of should_trigger calls explored
MaxTime     == 3   \* timestamps range over 0..MaxTime
MaxScore    == 1   \* scores range over 0..MaxScore
MaxFrames   == 2   \* frames_required ranges over 0..MaxFrames
MaxDebounce == 2   \* debounce_seconds ranges over 0..MaxDebounce
MaxY        == 2   \* landmark y coordinates range over 0..MaxY

Scores == 0..MaxScore
Times  == 0..MaxTime
Ys     == 0..MaxY

\* landmark indices of the two eye triples
LEFT_EYE_TOP      == 159
LEFT_EYE_BOTTOM   == 145
LEFT_IRIS_CENTER  == 468
RIGHT_EYE_TOP     == 386
RIGHT_EYE_BOTTOM  == 374
RIGHT_IRIS_CENTER == 473

LeftIdx  == {LEFT_EYE_TOP, LEFT_EYE_BOTTOM, LEFT_IRIS_CENTER}
RightIdx == {RIGHT_EYE_TOP, RIGHT_EYE_BOTTOM, RIGHT_IRIS_CENTER}
Idx      == LeftIdx \cup RightIdx

\* the (top, bottom, iris) indices process_landmarks uses for its first and
\* its second result
Eyes == <<<<LEFT_EYE_TOP, LEFT_EYE_BOTTOM, LEFT_IRIS_CENTER>>,
          <<RIGHT_EYE_TOP, RIGHT_EYE_BOTTOM, RIGHT_IRIS_CENTER>>>>

\* time.time() is seconds since 1970: it is beyond any debounce_seconds a
\* gate is configured with, and the model explores it up to MaxTime
ClockStart == MaxDebounce

VARIABLES
    roll_threshold,    \* config.roll_threshold
    frames_required,   \* config.frames_required
    debounce_seconds,  \* config.debounce_seconds
    recent_scores,     \* self._recent_scores, oldest first
    last_triggered,    \* self._last_triggered
    clock,             \* what time.time() returns now
    twin_scores,       \* _recent_scores of a second gate with the same config
    twin_last,         \* _last_triggered of the second gate
    twin_ret,          \* what the last call returned on the second gate
    calls,             \* number of calls made so far
    score,             \* score argument of the last call
    ret,               \* what the last call returned
    branch,            \* which return statement the last call took
    window,            \* _recent_scores after line 90 of the last call
    ts,                \* timestamp of the last call
    monotone,          \* all calls so far had non-decreasing timestamps
    allGiven,          \* all calls so far passed now
    allQualifying,     \* all calls so far had score >= roll_threshold
    fires,             \* number of calls so far that returned True
    fireTs,            \* timestamp of the most recent call that returned True
    accumulated,       \* scores appended since construction / the last True
    accScores,         \* the last frames_required + 1 of those scores,
                       \* oldest first (empty after a True)
    sawLow,            \* a score below roll_threshold has been appended
    lowAge,            \* scores appended after the most recent such score,
                       \* counted up to max(frames_required, 1)
    run,               \* length of the current post-cooldown qualifying run
    stage,             \* how far the process_landmarks calls have got
    landmarks,         \* y of the landmarks passed to process_landmarks
    scores,            \* (left, right) that process_landmarks returned
    other_landmarks,   \* y of the landmarks of a second call
    other_scores,      \* (left, right) that the second call returned
    cam,               \* where run_camera is: idle, loop, done or failed
    frame,             \* what the last iteration of the frame loop saw
    on_trigger         \* number of on_trigger() invocations so far

config == <<roll_threshold, frames_required, debounce_seconds>>
gate   == <<recent_scores, last_triggered>>
twin   == <<twin_scores, twin_last, twin_ret>>
call   == <<calls, score, ret, branch, window, ts>>
hist   == <<monotone, allGiven, allQualifying, fires, fireTs, accumulated,
            accScores, sawLow, lowAge, run>>
score_vars == <<stage, landmarks, scores, other_landmarks, other_scores>>
cam_vars   == <<cam, frame, on_trigger>>
vars   == <<config, gate, clock, twin, call, hist, score_vars, cam_vars>>

\* the last n entries of seq (all of them when it has fewer)
LastN(seq, n) ==
    IF Len(seq) <= n THEN seq ELSE SubSeq(seq, Len(seq) - n + 1, Len(seq))

\* some call so far returned True
fired == fires > 0

\* now = now or time.time(): None and 0 are both falsy
NowOr(n, g, t) == IF g /\ n # 0 THEN n ELSE t

\* now - self._last_triggered < self.config.debounce_seconds
DebounceReject(eff, last) == eff - last < debounce_seconds

\* an append that never evicts
DequeAppend_unbounded(buf, x) ==
    IF frames_required = 0 THEN buf ELSE Append(buf, x)

\* an append to a full buffer that drops the newest entry, not the oldest
DequeAppend_evictsNewest(buf, x) ==
    IF frames_required = 0 THEN buf
    ELSE IF Len(buf) >= frames_required
    THEN Append(SubSeq(buf, 1, Len(buf) - 1), x)
    ELSE Append(buf, x)

\* deque(maxlen=frames_required).append(x)
DequeAppend(buf, x) ==
    IF frames_required = 0 THEN buf
    ELSE IF Len(buf) >= frames_required THEN Append(Tail(buf), x)
    ELSE Append(buf, x)

\* any() in place of all()
above_threshold_any(buf) == \E i \in 1..Len(buf) : buf[i] >= roll_threshold

\* only the newest score is compared
above_threshold_newest(buf) ==
    Len(buf) > 0 => buf[Len(buf)] >= roll_threshold

\* only the oldest score is compared
above_threshold_oldest(buf) == Len(buf) > 0 => buf[1] >= roll_threshold

\* all(s >= self.config.roll_threshold for s in self._recent_scores)
above_threshold(buf) == \A i \in 1..Len(buf) : buf[i] >= roll_threshold

\* the score is appended before the debounce check returns
DebounceBranch_appends(buf, last, x) ==
    [ret |-> FALSE, scores |-> DequeAppend(buf, x), last |-> last,
     branch |-> "debounce", window |-> buf]

\* the return on line 88: nothing is touched
DebounceBranch(buf, last, x) ==
    [ret |-> FALSE, scores |-> buf, last |-> last, branch |-> "debounce",
     window |-> buf]

\* the buffer is not cleared on a fire
FireBranch_keeps(w, eff) ==
    [ret |-> TRUE, scores |-> w, last |-> eff, branch |-> "fire",
     window |-> w]

\* lines 98-100: record the fire, clear the buffer, return True
FireBranch(w, eff) ==
    [ret |-> TRUE, scores |-> <<>>, last |-> eff, branch |-> "fire",
     window |-> w]

\* should_trigger on a gate in state (buf, last), time.time() returning t
should_trigger(buf, last, x, n, g, t) ==
    LET eff == NowOr(n, g, t) IN
    IF DebounceReject(eff, last) THEN DebounceBranch(buf, last, x)
    ELSE LET w == DequeAppend(buf, x) IN
         IF Len(w) < frames_required
         THEN [ret |-> FALSE, scores |-> w, last |-> last, branch |-> "fill",
               window |-> w]
         ELSE IF ~above_threshold(w)
         THEN [ret |-> FALSE, scores |-> w, last |-> last,
               branch |-> "threshold", window |-> w]
         ELSE FireBranch(w, eff)

(***************************************************************************)
(* The eye-roll score.  A float is modelled by the fraction it stands for, *)
(* in lowest terms with a positive denominator; Raised stands for the      *)
(* ZeroDivisionError of a division by 0.                                   *)
(***************************************************************************)
RECURSIVE GCD(_, _)
GCD(a, b) == IF b = 0 THEN a ELSE GCD(b, a % b)

Abs(a) == IF a < 0 THEN -a ELSE a

Zero   == [num |-> 0, den |-> 1]
Raised == [num |-> 0, den |-> 0]

\* a / b on floats
Divide(a, b) ==
    IF b = 0 THEN Raised
    ELSE LET g == GCD(Abs(a), Abs(b))
             s == IF b < 0 THEN -1 ELSE 1
         IN [num |-> (s * a) \div g, den |-> (s * b) \div g]

\* the guard lets a zero height through to the division
eye_roll_score_strict(lm, eye_top, eye_bottom, iris_center) ==
    LET top_y      == lm[eye_top]
        bottom_y   == lm[eye_bottom]
        iris_y     == lm[iris_center]
        eye_height == bottom_y - top_y
    IN IF eye_height < 0 THEN Zero
       ELSE Divide(top_y - iris_y, eye_height)

\* the numerator is taken the other way round
eye_roll_score_flipped(lm, eye_top, eye_bottom, iris_center) ==
    LET top_y      == lm[eye_top]
        bottom_y   == lm[eye_bottom]
        iris_y     == lm[iris_center]
        eye_height == bottom_y - top_y
    IN IF eye_height <= 0 THEN Zero
       ELSE Divide(iris_y - top_y, eye_height)

\* EyeRollDetector._eye_roll_score
eye_roll_score(lm, eye_top, eye_bottom, iris_center) ==
    LET top_y      == lm[eye_top]
        bottom_y   == lm[eye_bottom]
        iris_y     == lm[iris_center]
        eye_height == bottom_y - top_y
    IN IF eye_height <= 0 THEN Zero
       ELSE Divide(top_y - iris_y, eye_height)

\* the left score is computed with the right eye's top landmark
process_landmarks_mixed(lm) ==
    <<eye_roll_score(lm, RIGHT_EYE_TOP, LEFT_EYE_BOTTOM, LEFT_IRIS_CENTER),
      eye_roll_score(lm, RIGHT_EYE_TOP, RIGHT_EYE_BOTTOM, RIGHT_IRIS_CENTER)>>

\* EyeRollDetector.process_landmarks
process_landmarks(lm) ==
    <<eye_roll_score(lm, LEFT_EYE_TOP, LEFT_EYE_BOTTOM, LEFT_IRIS_CENTER),
      eye_roll_score(lm, RIGHT_EYE_TOP, RIGHT_EYE_BOTTOM, RIGHT_IRIS_CENTER)>>

\* EyeRollDetector(EyeRollConfig(...)) for two gates; deque(maxlen=n) raises
\* for n < 0, so a constructed gate has frames_required >= 0
GateInit ==
    /\ recent_scores = <<>>
    /\ last_triggered = 0
    /\ clock = ClockStart
    /\ twin_scores = <<>>
    /\ twin_last = 0
    /\ twin_ret = FALSE
    /\ calls = 0
    /\ score = 0
    /\ ret = FALSE
    /\ branch = "init"
    /\ window = <<>>
    /\ ts = 0
    /\ monotone = TRUE
    /\ allGiven = TRUE
    /\ allQualifying = TRUE
    /\ fires = 0
    /\ fireTs = 0
    /\ accumulated = 0
    /\ accScores = <<>>
    /\ sawLow = FALSE
    /\ lowAge = 0
    /\ run = 0

\* no process_landmarks call has been made
ScoreIdle ==
    /\ stage = "idle"
    /\ landmarks = [i \in Idx |-> 0]
    /\ scores = <<Zero, Zero>>
    /\ other_landmarks = [i \in Idx |-> 0]
    /\ other_scores = <<Zero, Zero>>

\* a frame of the loop: whether cap.read() succeeded, whether a face was
\* detected, and the scores process_landmarks returns for its landmarks (in
\* the unit of the gate's scores)
NoFrame == [success |-> FALSE, face |-> FALSE, left |-> 0, right |-> 0]

\* run_camera has not been called
CameraIdle ==
    /\ cam = "idle"
    /\ frame = NoFrame
    /\ on_trigger = 0

Init ==
    /\ roll_threshold \in 1..MaxScore
    /\ frames_required \in 0..MaxFrames
    /\ debounce_seconds \in 0..MaxDebounce
    /\ GateInit
    /\ ScoreIdle
    /\ CameraIdle

\* what time.time() returns to the second gate, which is called after the
\* first one
TwinClock == IF clock < MaxTime THEN clock + 1 ELSE clock

\* one call should_trigger(x, n) (g) or should_trigger(x) (~g), made on both
\* gates
Call(x, n, g) ==
    /\ calls < MaxCalls
    /\ LET r    == should_trigger(recent_scores, last_triggered, x, n, g, clock)
           r2   == should_trigger(twin_scores, twin_last, x, n, g, TwinClock)
           t    == IF g THEN n ELSE clock
           acc  == r.branch # "debounce"
           low  == x < roll_threshold
           base == IF ret THEN 0 ELSE accumulated
           inRun == fired /\ ~low /\ ~r.ret /\ t >= fireTs + debounce_seconds
       IN /\ recent_scores' = r.scores
          /\ last_triggered' = r.last
          /\ twin_scores' = r2.scores
          /\ twin_last' = r2.last
          /\ twin_ret' = r2.ret
          /\ calls' = calls + 1
          /\ score' = x
          /\ ret' = r.ret
          /\ branch' = r.branch
          /\ window' = r.window
          /\ ts' = t
          /\ monotone' = (monotone /\ (calls = 0 \/ t >= ts))
          /\ allGiven' = (allGiven /\ g)
          /\ allQualifying' = (allQualifying /\ ~low)
          /\ fires' = IF r.ret THEN fires + 1 ELSE fires
          /\ fireTs' = IF r.ret THEN t ELSE fireTs
          /\ accumulated' = IF acc THEN base + 1 ELSE base
          /\ accScores' = IF r.ret THEN <<>>
                           ELSE IF acc
                           THEN LastN(Append(accScores, x),
                                      frames_required + 1)
                           ELSE accScores
          /\ sawLow' = (sawLow \/ (acc /\ low))
          /\ lowAge' = IF acc /\ low THEN 0
                       ELSE IF acc /\ sawLow
                                 /\ (lowAge < frames_required \/ lowAge < 1)
                            THEN lowAge + 1
                            ELSE lowAge
          /\ run' = IF ~inRun THEN 0
                    ELSE IF run > 0 /\ t >= ts THEN run + 1 ELSE 1
    /\ UNCHANGED <<config, clock>>

\* should_trigger(score, now=n)
ShouldTrigger ==
    /\ \E x \in Scores, n \in Times : Call(x, n, TRUE)
    /\ UNCHANGED <<score_vars, cam_vars>>

\* should_trigger(score), as run_camera calls it on line 123
ShouldTriggerNoNow ==
    /\ \E x \in Scores : Call(x, 0, FALSE)
    /\ UNCHANGED <<score_vars, cam_vars>>

\* wall-clock time passes
Tick ==
    /\ clock < MaxTime
    /\ clock' = clock + 1
    /\ UNCHANGED <<config, gate, twin, call, hist, score_vars, cam_vars>>

Next == ShouldTrigger \/ ShouldTriggerNoNow \/ Tick

Spec == Init /\ [][Next]_vars

TypeOK ==
    /\ recent_scores \in Seq(Scores)
    /\ last_triggered \in Times
    /\ clock \in ClockStart..MaxTime
    /\ calls \in 0..MaxCalls
    /\ ret \in BOOLEAN
    /\ branch \in {"init", "debounce", "fill", "threshold", "fire"}


(***************************************************************************)
(* SpecScore: process_landmarks on a detector with the default             *)
(* configuration, called on one set of landmarks and then on a second set  *)
(* that differs from it in one eye only.                                   *)
(***************************************************************************)
ScoreInit ==
    /\ roll_threshold = MaxScore
    /\ frames_required = MaxFrames
    /\ debounce_seconds = MaxDebounce
    /\ GateInit
    /\ stage = "start"
    /\ landmarks \in [Idx -> Ys]
    /\ scores = <<Zero, Zero>>
    /\ other_landmarks = landmarks
    /\ other_scores = <<Zero, Zero>>
    /\ CameraIdle

\* detector.process_landmarks(landmarks)
ProcessLandmarks ==
    /\ stage = "start"
    /\ stage' = "scored"
    /\ scores' = process_landmarks(landmarks)
    /\ UNCHANGED <<landmarks, other_landmarks, other_scores>>
    /\ UNCHANGED <<config, gate, clock, twin, call, hist, cam_vars>>

\* the landmarks of the eye e are replaced and process_landmarks is called
\* on the result
Perturb(e, name) ==
    /\ stage = "scored"
    /\ \E f \in [e -> Ys] :
          LET lm == [i \in Idx |-> IF i \in e THEN f[i] ELSE landmarks[i]]
          IN /\ other_landmarks' = lm
             /\ other_scores' = process_landmarks(lm)
    /\ stage' = name
    /\ UNCHANGED <<landmarks, scores>>
    /\ UNCHANGED <<config, gate, clock, twin, call, hist, cam_vars>>

PerturbRight == Perturb(RightIdx, "right perturbed")

PerturbLeft == Perturb(LeftIdx, "left perturbed")

ScoreNext == ProcessLandmarks \/ PerturbRight \/ PerturbLeft

SpecScore == ScoreInit /\ [][ScoreNext]_vars


(***************************************************************************)
(* SpecCamera: run_camera on a freshly constructed detector.               *)
(***************************************************************************)

\* the left score is passed whatever the right one is
FrameScore_left(left, right) == left

\* score = max(left, right)
FrameScore(left, right) == IF right > left THEN right ELSE left

\* cv2.VideoCapture(0) and the isOpened() check
OpenCamera ==
    /\ cam = "idle"
    /\ \E opened \in BOOLEAN : cam' = IF opened THEN "loop" ELSE "failed"
    /\ UNCHANGED <<frame, on_trigger>>
    /\ UNCHANGED <<config, gate, clock, twin, call, hist, score_vars>>

\* cap.read() fails: the loop ends
ReadFails ==
    /\ cam = "loop"
    /\ cam' = "done"
    /\ frame' = NoFrame
    /\ UNCHANGED on_trigger
    /\ UNCHANGED <<config, gate, clock, twin, call, hist, score_vars>>

\* an iteration with a detected face; esc: waitKey returns the escape key
FaceFrame ==
    /\ cam = "loop"
    /\ \E left \in Scores, right \in Scores, esc \in BOOLEAN :
          /\ Call(FrameScore(left, right), 0, FALSE)
          /\ on_trigger' = IF ret' THEN on_trigger + 1 ELSE on_trigger
          /\ frame' = [success |-> TRUE, face |-> TRUE,
                       left |-> left, right |-> right]
          /\ cam' = IF esc THEN "done" ELSE "loop"
    /\ UNCHANGED score_vars

\* an iteration without a detected face
NoFaceFrame ==
    /\ cam = "loop"
    /\ \E esc \in BOOLEAN : cam' = IF esc THEN "done" ELSE "loop"
    /\ frame' = [success |-> TRUE, face |-> FALSE, left |-> 0, right |-> 0]
    /\ UNCHANGED on_trigger
    /\ UNCHANGED <<config, gate, clock, twin, call, hist, score_vars>>

CameraNext == OpenCamera \/ ReadFails \/ FaceFrame \/ NoFaceFrame \/ Tick

SpecCamera == Init /\ [][CameraNext]_vars

(***************************************************************************)
(* Claims                                                                  *)
(***************************************************************************)

\* C1: with non-decreasing timestamps, a call that returns True has a
\* timestamp at least debounce_seconds after the timestamp of the most recent
\* earlier call that returned True.
C1_DebounceSpacing ==
    [][(calls' = calls + 1 /\ ret' /\ fired /\ monotone')
         => ts' - fireTs >= debounce_seconds]_vars

\* C2: a call returns True only when the buffer after the append holds
\* exactly frames_required scores, every one of them >= roll_threshold.
C2_TrueOnlyOnFullQualifyingWindow ==
    ret => /\ branch = "fire"
           /\ Len(window) = frames_required
           /\ \A i \in 1..Len(window) : window[i] >= roll_threshold

C2_Witness == ret /\ frames_required >= 2 /\ Len(window) = frames_required

\* C3: on a fresh gate with frames_required = N >= 1, N calls with qualifying
\* scores and non-decreasing timestamps return False N-1 times and then True.
C3_FillGate ==
    (frames_required >= 1 /\ allQualifying /\ allGiven /\ monotone
       /\ calls >= 1 /\ calls <= frames_required)
      => (ret <=> calls = frames_required)

\* C4: a call rejected by the debounce check returns False and leaves
\* recent_scores and last_triggered as they were.
C4_RejectedCallChangesNothing ==
    [][(calls' = calls + 1 /\ branch' = "debounce")
         => /\ ret' = FALSE
            /\ recent_scores' = recent_scores
            /\ last_triggered' = last_triggered]_vars

C4_Witness == branch = "debounce" /\ recent_scores # <<>> /\ calls >= 2

\* C5: right after a call returns True recent_scores is empty, and every call
\* that returns True is at least the frames_required-th call accumulated
\* since the previous True (or since construction).
C5_ClearOnFire ==
    ret => /\ recent_scores = <<>>
           /\ accumulated >= frames_required

C5_Witness == ret /\ fires >= 2 /\ frames_required >= 2

\* C6: after a True at timestamp t (the most recent one), frames_required
\* consecutive calls with qualifying scores and non-decreasing timestamps
\* >= t + debounce_seconds contain a call that returns True.
C6_FiresAfterCooldown ==
    frames_required >= 1 => run < frames_required

\* C7 (as stated): an accumulated score below roll_threshold prevents True on
\* its own call and on each of the next frames_required - 1 accumulated calls.
C7_LowScoreBlocksWindow ==
    (ret /\ sawLow) => (lowAge >= 1 /\ lowAge >= frames_required)

\* C7 (amended): the same, for gates with frames_required >= 1.
C7_LowScoreBlocksWindow_Amended ==
    (frames_required >= 1 /\ ret /\ sawLow)
      => (lowAge >= 1 /\ lowAge >= frames_required)

C7_Witness ==
    /\ frames_required >= 2
    /\ branch = "threshold"
    /\ sawLow /\ lowAge >= 1
    /\ window[Len(window)] >= roll_threshold

\* C8: two gates with the same configuration fed the same (score, now) pairs
\* return the same results and end in the same state.
C8_Determinism ==
    allGiven => /\ twin_ret = ret
                /\ twin_scores = recent_scores
                /\ twin_last = last_triggered

\* C9: before the first True no call is rejected by the debounce check.
C9_InitialSentinelIsNever ==
    ~fired => branch # "debounce"

\* C10: len(recent_scores) <= frames_required in every reachable state.
C10_BufferBounded == Len(recent_scores) <= frames_required

C10_Witness ==
    /\ frames_required >= 1
    /\ Len(recent_scores) = frames_required
    /\ accumulated > frames_required

\* C11: the score of a triple is 0 when bottom_y - top_y <= 0 and is
\* (top_y - iris_y) / (bottom_y - top_y) otherwise; it is never an exception,
\* and process_landmarks returns it for the left and for the right triple.
C11_ScoreFormula ==
    stage # "start" =>
      \A e \in 1..2 :
        LET top_y    == landmarks[Eyes[e][1]]
            bottom_y == landmarks[Eyes[e][2]]
            iris_y   == landmarks[Eyes[e][3]]
            sc       == scores[e]
        IN /\ sc # Raised
           /\ bottom_y - top_y <= 0 => sc = Zero
           /\ bottom_y - top_y > 0 =>
                /\ sc.den > 0
                /\ sc.num * (bottom_y - top_y) = (top_y - iris_y) * sc.den

C11_Witness ==
    /\ stage = "scored"
    /\ landmarks[LEFT_EYE_BOTTOM] = landmarks[LEFT_EYE_TOP]
    /\ landmarks[LEFT_IRIS_CENTER] # landmarks[LEFT_EYE_TOP]
    /\ landmarks[RIGHT_EYE_BOTTOM] > landmarks[RIGHT_EYE_TOP]
    /\ scores[2] # Zero

\* C12 (as stated): for an eye of positive height the score is positive when
\* the iris is above the eye-top, approximately 0 (here: closer to 0 than
\* 1/4) when the iris is centred between eye-top and eye-bottom, and negative
\* when the iris is at the eye-bottom.
C12_ScoreSign ==
    stage # "start" =>
      \A e \in 1..2 :
        LET top_y    == landmarks[Eyes[e][1]]
            bottom_y == landmarks[Eyes[e][2]]
            iris_y   == landmarks[Eyes[e][3]]
            sc       == scores[e]
        IN bottom_y > top_y =>
             /\ iris_y < top_y => sc.num > 0
             /\ 2 * iris_y = top_y + bottom_y => 4 * Abs(sc.num) < sc.den
             /\ iris_y = bottom_y => sc.num < 0

\* C12 (amended): for an eye of positive height the score is positive when
\* the iris is above the eye-top, 0 when it is level with the eye-top,
\* negative when it is below the eye-top, -1/2 when it is centred and -1 when
\* it is at the eye-bottom.
C12_ScoreSign_Amended ==
    stage # "start" =>
      \A e \in 1..2 :
        LET top_y    == landmarks[Eyes[e][1]]
            bottom_y == landmarks[Eyes[e][2]]
            iris_y   == landmarks[Eyes[e][3]]
            sc       == scores[e]
        IN bottom_y > top_y =>
             /\ iris_y < top_y => sc.num > 0
             /\ iris_y = top_y => sc = Zero
             /\ iris_y > top_y => sc.num < 0
             /\ 2 * iris_y = top_y + bottom_y => sc = [num |-> -1, den |-> 2]
             /\ iris_y = bottom_y => sc = [num |-> -1, den |-> 1]

C12_Witness ==
    /\ stage = "scored"
    /\ landmarks[LEFT_EYE_BOTTOM] > landmarks[LEFT_EYE_TOP]
    /\ 2 * landmarks[LEFT_IRIS_CENTER]
         = landmarks[LEFT_EYE_TOP] + landmarks[LEFT_EYE_BOTTOM]
    /\ landmarks[RIGHT_EYE_BOTTOM] > landmarks[RIGHT_EYE_TOP]
    /\ landmarks[RIGHT_IRIS_CENTER] < landmarks[RIGHT_EYE_TOP]

\* C13: two landmark sets that agree on the left-eye triple give the same
\* left score whatever their right-eye landmarks, and two that agree on the
\* right-eye triple give the same right score.
C13_PerEyeIndependence ==
    /\ stage = "right perturbed" => other_scores[1] = scores[1]
    /\ stage = "left perturbed" => other_scores[2] = scores[2]

C13_Witness ==
    /\ stage = "right perturbed"
    /\ other_scores[2] # scores[2]
    /\ scores[1] # Zero
    /\ other_landmarks[RIGHT_EYE_TOP] # landmarks[RIGHT_EYE_TOP]

\* C14: a call that returns True sets last_triggered to exactly the now it
\* was given (the clock reading when now was omitted), and a call that
\* returns False leaves last_triggered unchanged.
C14_LastTriggeredIsNow ==
    [][calls' = calls + 1
         => IF ret' THEN last_triggered' = ts'
                    ELSE last_triggered' = last_triggered]_vars

\* C15: after a call that passes the debounce check and returns False,
\* recent_scores holds, oldest first, exactly the last min(k, frames_required)
\* of the k scores accumulated since construction or the last True.
C15_SlidingWindow ==
    branch \in {"fill", "threshold"} =>
      /\ recent_scores = LastN(accScores, frames_required)
      /\ Len(recent_scores)
           = IF accumulated < frames_required THEN accumulated
                                              ELSE frames_required

C15_Witness ==
    /\ branch = "threshold"
    /\ frames_required >= 2
    /\ accumulated > frames_required
    /\ recent_scores[1] # recent_scores[2]

\* C16: in the frame loop, a frame with a detected face makes exactly one
\* should_trigger call, with max(left, right), and on_trigger is invoked once
\* exactly when that call returns True; any other iteration makes no call,
\* invokes nothing and leaves the gate as it was.
C16_FrameLoop ==
    [][(cam = "loop" /\ clock' = clock)
         => IF frame'.success /\ frame'.face
            THEN /\ calls' = calls + 1
                 /\ score' = (IF frame'.left >= frame'.right
                              THEN frame'.left ELSE frame'.right)
                 /\ on_trigger' = on_trigger + (IF ret' THEN 1 ELSE 0)
            ELSE /\ calls' = calls
                 /\ on_trigger' = on_trigger
                 /\ UNCHANGED gate]_vars

C16_Witness ==
    /\ cam = "loop"
    /\ frame.face
    /\ frame.left < frame.right
    /\ ret
    /\ on_trigger = 2
    /\ frames_required >= 1

\* C17 (as stated): for every frames_required >= 0, no call returns True on a
\* score below roll_threshold.
C17_NoFireOnLowScore ==
    ret => score >= roll_threshold

\* C17 (amended): the same, for frames_required >= 1.
C17_NoFireOnLowScore_Amended ==
    (frames_required >= 1 /\ ret) => score >= roll_threshold

C17_Witness ==
    /\ frames_required >= 2
    /\ ret
    /\ sawLow
    /\ score >= roll_threshold

\* C18: with non-decreasing timestamps, recent_scores is empty at every call
\* that the debounce check rejects.
C18_EmptyBufferInCooldown ==
    (monotone /\ branch = "debounce") => recent_scores = <<>>

====
